---- MODULE Spec2Model ----
(***************************************************************************)
(* PhonixCast CLI (src/app/main.py): one invocation of main().  Text is    *)
(* modelled as sequences of one-character strings so that splitlines(),    *)
(* strip(), split() and str() are computed, not assumed.                   *)
(***************************************************************************)
EXTENDS Integers, Sequences, FiniteSets, TLC

VARIABLES command, args, adbOnPath, scrcpyOnPath, pc, checked, calls,
          listing, devices, device, result, exitStatus, stderr

vars == <<command, args, adbOnPath, scrcpyOnPath, pc, checked, calls,
          listing, devices, device, result, exitStatus, stderr>>

(* ----------------------------- bounds ---------------------------------- *)
\* largest exit code the mirroring tool is let to return
MaxRc == 2
\* device lines (after the header) in the listing of a modelled run of main()
MaxDevLines == 2
\* lines after the first in the listings the parser is exercised on
MaxLines == 2

(* --------------------------- text literals ----------------------------- *)
ADB == <<"a", "d", "b">>
SCRCPY == <<"s", "c", "r", "c", "p", "y">>
W_devices == <<"d", "e", "v", "i", "c", "e", "s">>
W_device == <<"d", "e", "v", "i", "c", "e">>
W_unauthorized == <<"u", "n", "a", "u", "t", "h", "o", "r", "i", "z", "e", "d">>
W_usb == <<"u", "s", "b">>
W_s == <<"-", "s">>
W_shell == <<"s", "h", "e", "l", "l">>
W_settings == <<"s", "e", "t", "t", "i", "n", "g", "s">>
W_put == <<"p", "u", "t">>
W_global == <<"g", "l", "o", "b", "a", "l">>
W_stay_on == <<"s", "t", "a", "y", "_", "o", "n", "_", "w", "h", "i", "l", "e", "_", "p", "l", "u", "g", "g", "e", "d", "_", "i", "n">>
OPT_serial == <<"-", "-", "s", "e", "r", "i", "a", "l">>
OPT_video_bit_rate == <<"-", "-", "v", "i", "d", "e", "o", "-", "b", "i", "t", "-", "r", "a", "t", "e">>
OPT_max_fps == <<"-", "-", "m", "a", "x", "-", "f", "p", "s">>
OPT_video_codec == <<"-", "-", "v", "i", "d", "e", "o", "-", "c", "o", "d", "e", "c">>
OPT_max_size == <<"-", "-", "m", "a", "x", "-", "s", "i", "z", "e">>
OPT_turn_screen_off == <<"-", "-", "t", "u", "r", "n", "-", "s", "c", "r", "e", "e", "n", "-", "o", "f", "f">>
OPT_no_audio == <<"-", "-", "n", "o", "-", "a", "u", "d", "i", "o">>
W_List == <<"L", "i", "s", "t">>
W_of == <<"o", "f">>
W_attached == <<"a", "t", "t", "a", "c", "h", "e", "d">>

\* serials of the devices that may be attached, and one that never is
SerialA == <<"A", "1">>
SerialB == <<"B", "2">>
SerialC == <<"C", "3">>

Range(s) == {s[i] : i \in DOMAIN s}

(* ------------------------ Python string methods ------------------------ *)
\* characters str.split() and str.strip() treat as whitespace
IsSpace(c) == c \in {" ", "\t", "\n", "\r", "\f"}

\* characters str.splitlines() treats as a line boundary
IsLineBoundary(c) == c \in {"\n", "\r", "\f"}

\* index of the first line boundary at or after i, Len(s)+1 when there is none
LineEnd(s, i) ==
    CHOOSE j \in i..(Len(s) + 1) :
        /\ (j = Len(s) + 1 \/ IsLineBoundary(s[j]))
        /\ \A k \in i..(j - 1) : ~IsLineBoundary(s[k])

RECURSIVE SplitLinesFrom(_, _)
SplitLinesFrom(s, i) ==
    IF i > Len(s) THEN <<>>
    ELSE LET eol == LineEnd(s, i)
             nxt == IF eol > Len(s) THEN eol
                    ELSE IF s[eol] = "\r" /\ eol + 1 <= Len(s) /\ s[eol + 1] = "\n"
                         THEN eol + 2
                         ELSE eol + 1
         IN  <<SubSeq(s, i, eol - 1)>> \o SplitLinesFrom(s, nxt)

\* str.splitlines(): the lines without their terminators; "\r\n" is one
\* terminator; no empty last line after a final terminator
splitlines(s) == SplitLinesFrom(s, 1)

\* str.strip(): without leading and trailing whitespace
strip(s) ==
    LET idx == {i \in DOMAIN s : ~IsSpace(s[i])}
    IN  IF idx = {} THEN <<>>
        ELSE SubSeq(s, CHOOSE i \in idx : \A j \in idx : i <= j,
                       CHOOSE i \in idx : \A j \in idx : j <= i)

RECURSIVE SplitFrom(_, _)
SplitFrom(s, i) ==
    LET idx == {k \in i..Len(s) : ~IsSpace(s[k])}
    IN  IF idx = {} THEN <<>>
        ELSE LET start == CHOOSE k \in idx : \A j \in idx : k <= j
                 stop  == CHOOSE k \in start..(Len(s) + 1) :
                              /\ (k = Len(s) + 1 \/ IsSpace(s[k]))
                              /\ \A j \in start..(k - 1) : ~IsSpace(s[j])
             IN  <<SubSeq(s, start, stop - 1)>> \o SplitFrom(s, stop)

\* str.split() without argument: the maximal runs of non-whitespace
split(s) == SplitFrom(s, 1)

RECURSIVE Digits(_)
Digits(n) ==
    LET d == <<"0", "1", "2", "3", "4", "5", "6", "7", "8", "9">>
    IN  IF n < 10 THEN <<d[n + 1]>> ELSE Digits(n \div 10) \o <<d[(n % 10) + 1]>>

\* str(int): decimal, with a minus sign for a negative number
str(n) == IF n < 0 THEN <<"-">> \o Digits(0 - n) ELSE Digits(n)

\* a Python slice xs[1:], defined on the empty list too
Rest(xs) == IF xs = <<>> THEN <<>> ELSE Tail(xs)

(* ---------------------------- list_devices ----------------------------- *)
RECURSIVE ScanLines(_)
ScanLines(lines) ==
    IF lines = <<>> THEN <<>>
    ELSE LET parts == split(strip(Head(lines)))
         IN  (IF Len(parts) >= 2 /\ parts[2] = W_device THEN <<parts[1]>> ELSE <<>>)
             \o ScanLines(Tail(lines))

\* list_devices() skipping nothing: the header line is scanned like the rest
list_devices_NoHeaderSkip(stdout) == ScanLines(splitlines(stdout))

\* list_devices(), the part after the returncode test: parse the captured stdout
list_devices(stdout) == ScanLines(Rest(splitlines(stdout)))

(* ------------------- the captured output of adb devices ---------------- *)
\* A listing is a sequence of lines, each a sequence of fields, and the way
\* they are laid out: field separator, leading blank, line terminator, and
\* whether the last line is terminated.
RECURSIVE Join(_, _)
Join(fields, sep) ==
    IF fields = <<>> THEN <<>>
    ELSE IF Len(fields) = 1 THEN fields[1]
    ELSE fields[1] \o sep \o Join(Tail(fields), sep)

RenderLine(fields, l) == (IF l.lead THEN <<" ">> ELSE <<>>) \o Join(fields, l.sep)

RECURSIVE RenderLines(_, _)
RenderLines(lines, l) ==
    IF lines = <<>> THEN <<>>
    ELSE RenderLine(Head(lines), l)
         \o (IF Len(lines) > 1 \/ l.finalEol THEN l.eol ELSE <<>>)
         \o RenderLines(Tail(lines), l)

\* the text adb writes for a listing
Render(l) == RenderLines(l.lines, l)

StdHeader == <<W_List, W_of, W_devices, W_attached>>

SeqsUpTo(S, n) == UNION {[1..k -> S] : k \in 0..n}

\* what adb prints in practice: header, then "serial<TAB>state" lines
AdbLineShapes == {<<s, st>> : s \in {SerialA, SerialB}, st \in {W_device, W_unauthorized}}

AdbListings ==
    {[lines |-> <<StdHeader>> \o ls, sep |-> <<"\t">>, lead |-> FALSE,
      eol |-> <<"\n">>, finalEol |-> TRUE] : ls \in SeqsUpTo(AdbLineShapes, MaxDevLines)}

EmptyListing == [lines |-> <<>>, sep |-> <<"\t">>, lead |-> FALSE, eol |-> <<"\n">>, finalEol |-> TRUE]

\* what adb devices may write to stdout when it exits with rc; the output of
\* a failed run is not read
AdbOutputs(rc) == IF rc = 0 THEN AdbListings ELSE {EmptyListing}

\* any captured text: blank lines, one to three fields, other states, a first
\* line that looks like a device, no line at all
FirstFields == {SerialA, SerialB, W_device}
SecondFields == {W_device, W_devices, W_unauthorized}
AnyLineShapes ==
    {<<>>} \cup {<<a>> : a \in FirstFields}
           \cup {<<a, b>> : a \in FirstFields, b \in SecondFields}
           \cup {<<a, b, W_usb>> : a \in FirstFields, b \in SecondFields}

FirstLineShapes == {StdHeader, <<SerialA, W_device>>}

AnyLines ==
    {<<>>} \cup {<<h>> \o ls : h \in FirstLineShapes, ls \in SeqsUpTo(AnyLineShapes, MaxLines)}

AnyListings ==
    {[lines |-> ls, sep |-> sp, lead |-> ld, eol |-> e, finalEol |-> fe] :
        ls \in AnyLines, sp \in {<<"\t">>, <<" ", "\t">>}, ld \in BOOLEAN,
        e \in {<<"\n">>, <<"\r", "\n">>}, fe \in BOOLEAN}

(* ------------------------------ PROFILES ------------------------------- *)
Profile(name, bitrate, max_fps, codec) ==
    [name |-> name, bitrate |-> bitrate, max_fps |-> max_fps, codec |-> codec]

PROFILES ==
    [n \in {"balanced", "low-latency", "ultra-low-latency"} |->
        CASE n = "balanced" -> Profile(n, <<"8", "M">>, 60, <<"h", "2", "6", "4">>)
          [] n = "low-latency" -> Profile(n, <<"6", "M">>, 45, <<"h", "2", "6", "4">>)
          [] n = "ultra-low-latency" -> Profile(n, <<"4", "M">>, 30, <<"h", "2", "6", "4">>)]

(* ------------------------- argparse's Namespace ------------------------ *)
\* an optional argument: absent (Python None) or present with a value
NoneStr == [given |-> FALSE, val |-> <<>>]
NoneInt == [given |-> FALSE, val |-> 0]
Some(v) == [given |-> TRUE, val |-> v]

\* Python truth value of an optional string: None and "" are false
TruthyStr(o) == o.given /\ o.val # <<>>

\* Python truth value of an optional int: None and 0 are false
TruthyInt(o) == o.given /\ o.val # 0

\* values --serial and --max-size (type=int) are given in the modelled runs
SerialArgs == {NoneStr, Some(<<>>), Some(SerialA), Some(SerialB), Some(SerialC)}
MaxSizeArgs == {NoneInt, Some(0), Some(1024), Some(0 - 1)}

StartArgs ==
    [profile : DOMAIN PROFILES, serial : SerialArgs, max_size : MaxSizeArgs,
     turn_screen_off : BOOLEAN, stay_awake : BOOLEAN, no_audio : BOOLEAN]

\* the subparsers of profiles and devices define no argument
NoArgs ==
    [profile |-> "balanced", serial |-> NoneStr, max_size |-> NoneInt,
     turn_screen_off |-> FALSE, stay_awake |-> FALSE, no_audio |-> FALSE]

(* -------------------------- external commands -------------------------- *)
AdbDevicesCmd == <<ADB, W_devices>>

\* the command of set_stay_awake(device, enabled)
StayAwakeCmd(dev, enabled) ==
    <<ADB, W_s, dev, W_shell, W_settings, W_put, W_global, W_stay_on,
      IF enabled THEN <<"3">> ELSE <<"0">>>>

\* the mirroring command with the optional arguments left out
BuildCmd_NoOptionals(dev, profile, a) ==
    <<SCRCPY, OPT_serial, dev, OPT_video_bit_rate, profile.bitrate,
      OPT_max_fps, str(profile.max_fps), OPT_video_codec, profile.codec>>

\* the mirroring command of start_stream
BuildCmd(dev, profile, a) ==
    <<SCRCPY, OPT_serial, dev, OPT_video_bit_rate, profile.bitrate,
      OPT_max_fps, str(profile.max_fps), OPT_video_codec, profile.codec>>
    \o (IF TruthyInt(a.max_size) THEN <<OPT_max_size, str(a.max_size.val)>> ELSE <<>>)
    \o (IF a.turn_screen_off THEN <<OPT_turn_screen_off>> ELSE <<>>)
    \o (IF a.no_audio THEN <<OPT_no_audio>> ELSE <<>>)

Call(argv, rc) == [argv |-> argv, rc |-> rc]

(* ------------------------------- main() -------------------------------- *)
Init ==
    /\ command \in {"profiles", "devices", "start"}
    /\ args \in (IF command = "start" THEN StartArgs ELSE {NoArgs})
    /\ adbOnPath \in BOOLEAN
    /\ scrcpyOnPath \in BOOLEAN
    /\ pc = "require_adb"
    /\ checked = <<>>
    /\ calls = <<>>
    /\ listing = EmptyListing
    /\ devices = <<>>
    /\ device = <<>>
    /\ result = 0
    /\ exitStatus = 0
    /\ stderr = <<>>

\* main: if args.command in {"devices", "start"}: _require_binary("adb")
RequireAdb ==
    /\ pc = "require_adb"
    /\ checked' = IF command \in {"devices", "start"} THEN Append(checked, "adb") ELSE checked
    /\ IF command \in {"devices", "start"} /\ ~adbOnPath
       THEN /\ pc' = "done"
            /\ exitStatus' = 1
            /\ stderr' = Append(stderr, "Error: No se encontro 'adb' en PATH.")
       ELSE /\ pc' = "require_scrcpy"
            /\ UNCHANGED <<exitStatus, stderr>>
    /\ UNCHANGED <<command, args, adbOnPath, scrcpyOnPath, calls, listing, devices, device, result>>

\* main without the scrcpy test
RequireScrcpy_Skipped ==
    /\ pc = "require_scrcpy"
    /\ pc' = "dispatch"
    /\ UNCHANGED <<command, args, adbOnPath, scrcpyOnPath, checked, calls, listing,
                   devices, device, result, exitStatus, stderr>>

\* main: if args.command == "start": _require_binary("scrcpy")
RequireScrcpy ==
    /\ pc = "require_scrcpy"
    /\ checked' = IF command = "start" THEN Append(checked, "scrcpy") ELSE checked
    /\ IF command = "start" /\ ~scrcpyOnPath
       THEN /\ pc' = "done"
            /\ exitStatus' = 1
            /\ stderr' = Append(stderr, "Error: No se encontro 'scrcpy' en PATH.")
       ELSE /\ pc' = "dispatch"
            /\ UNCHANGED <<exitStatus, stderr>>
    /\ UNCHANGED <<command, args, adbOnPath, scrcpyOnPath, calls, listing, devices, device, result>>

\* main: return print_profiles()
PrintProfiles ==
    /\ pc = "dispatch"
    /\ command = "profiles"
    /\ pc' = "done"
    /\ exitStatus' = 0
    /\ UNCHANGED <<command, args, adbOnPath, scrcpyOnPath, checked, calls, listing,
                   devices, device, result, stderr>>

\* print_devices answering 1 when nothing is attached
PrintDevices_EmptyFails ==
    /\ pc = "dispatch"
    /\ command = "devices"
    /\ \E rc \in {0, 1} : \E l \in AdbOutputs(rc) :
          /\ calls' = Append(calls, Call(AdbDevicesCmd, rc))
          /\ listing' = l
          /\ devices' = IF rc # 0 THEN devices ELSE list_devices(Render(l))
          /\ exitStatus' = IF rc # 0 \/ devices' = <<>> THEN 1 ELSE 0
          /\ stderr' = IF rc # 0 THEN Append(stderr, "Error: Fallo ejecutando adb devices") ELSE stderr
    /\ pc' = "done"
    /\ UNCHANGED <<command, args, adbOnPath, scrcpyOnPath, checked, device, result>>

\* main: return print_devices(); list_devices raises RuntimeError on a
\* nonzero returncode, which main turns into exit status 1
PrintDevices ==
    /\ pc = "dispatch"
    /\ command = "devices"
    /\ \E rc \in {0, 1} : \E l \in AdbOutputs(rc) :
          /\ calls' = Append(calls, Call(AdbDevicesCmd, rc))
          /\ listing' = l
          /\ devices' = IF rc # 0 THEN devices ELSE list_devices(Render(l))
          /\ exitStatus' = IF rc # 0 THEN 1 ELSE 0
          /\ stderr' = IF rc # 0 THEN Append(stderr, "Error: Fallo ejecutando adb devices") ELSE stderr
    /\ pc' = "done"
    /\ UNCHANGED <<command, args, adbOnPath, scrcpyOnPath, checked, device, result>>

\* start_stream where an empty device list is reported as an error (1)
StartResolve_EmptyIsError ==
    /\ pc = "dispatch"
    /\ command = "start"
    /\ \E rc \in {0, 1} : \E l \in AdbOutputs(rc) :
          /\ calls' = Append(calls, Call(AdbDevicesCmd, rc))
          /\ listing' = l
          /\ IF rc # 0
             THEN /\ pc' = "done"
                  /\ exitStatus' = 1
                  /\ stderr' = Append(stderr, "Error: Fallo ejecutando adb devices")
                  /\ UNCHANGED <<devices, device>>
             ELSE LET devs == list_devices(Render(l))
                      dev  == IF TruthyStr(args.serial) THEN args.serial.val ELSE devs[1]
                  IN  /\ devices' = devs
                      /\ IF devs = <<>>
                         THEN /\ pc' = "done"
                              /\ exitStatus' = 1
                              /\ stderr' = Append(stderr, "No se encontraron dispositivos")
                              /\ UNCHANGED device
                         ELSE /\ device' = dev
                              /\ IF dev \notin Range(devs)
                                 THEN /\ pc' = "done"
                                      /\ exitStatus' = 2
                                      /\ stderr' = Append(stderr, "El dispositivo solicitado no esta disponible")
                                 ELSE /\ pc' = "stay_awake_on"
                                      /\ UNCHANGED <<exitStatus, stderr>>
    /\ UNCHANGED <<command, args, adbOnPath, scrcpyOnPath, checked, result>>

\* start_stream, lines 69-79: list the devices and resolve the target;
\* device = args.serial or devices[0]
StartResolve ==
    /\ pc = "dispatch"
    /\ command = "start"
    /\ \E rc \in {0, 1} : \E l \in AdbOutputs(rc) :
          /\ calls' = Append(calls, Call(AdbDevicesCmd, rc))
          /\ listing' = l
          /\ IF rc # 0
             THEN /\ pc' = "done"
                  /\ exitStatus' = 1
                  /\ stderr' = Append(stderr, "Error: Fallo ejecutando adb devices")
                  /\ UNCHANGED <<devices, device>>
             ELSE LET devs == list_devices(Render(l))
                      dev  == IF TruthyStr(args.serial) THEN args.serial.val ELSE devs[1]
                  IN  /\ devices' = devs
                      /\ IF devs = <<>>
                         THEN /\ pc' = "done"
                              /\ exitStatus' = 2
                              /\ stderr' = Append(stderr, "No se encontraron dispositivos")
                              /\ UNCHANGED device
                         ELSE /\ device' = dev
                              /\ IF dev \notin Range(devs)
                                 THEN /\ pc' = "done"
                                      /\ exitStatus' = 2
                                      /\ stderr' = Append(stderr, "El dispositivo solicitado no esta disponible")
                                 ELSE /\ pc' = "stay_awake_on"
                                      /\ UNCHANGED <<exitStatus, stderr>>
    /\ UNCHANGED <<command, args, adbOnPath, scrcpyOnPath, checked, result>>

\* the return codes of a settings call that is made only when wanted
SettingRcs(wanted) == IF wanted THEN {0, 1} ELSE {0}

\* start_stream where a failed enable call is not raised
EnableStayAwake_Ignored ==
    /\ pc = "stay_awake_on"
    /\ \E rc \in SettingRcs(args.stay_awake) :
          calls' = IF args.stay_awake
                   THEN Append(calls, Call(StayAwakeCmd(device, TRUE), rc))
                   ELSE calls
    /\ pc' = "stream"
    /\ UNCHANGED <<command, args, adbOnPath, scrcpyOnPath, checked, listing, devices,
                   device, result, exitStatus, stderr>>

\* start_stream, lines 81-82: if args.stay_awake: set_stay_awake(device, True);
\* its RuntimeError reaches main, which returns 1
EnableStayAwake ==
    /\ pc = "stay_awake_on"
    /\ \E rc \in SettingRcs(args.stay_awake) :
          /\ calls' = IF args.stay_awake
                      THEN Append(calls, Call(StayAwakeCmd(device, TRUE), rc))
                      ELSE calls
          /\ IF rc # 0
             THEN /\ pc' = "done"
                  /\ exitStatus' = 1
                  /\ stderr' = Append(stderr, "Error: No se pudo configurar stay_awake")
             ELSE /\ pc' = "stream"
                  /\ UNCHANGED <<exitStatus, stderr>>
    /\ UNCHANGED <<command, args, adbOnPath, scrcpyOnPath, checked, listing, devices,
                   device, result>>

\* start_stream keeping 0 instead of the returncode of the mirroring tool
RunScrcpy_DropsCode ==
    /\ pc = "stream"
    /\ \E rc \in 0..MaxRc :
          /\ calls' = Append(calls, Call(BuildCmd(device, PROFILES[args.profile], args), rc))
          /\ result' = 0
    /\ pc' = "stay_awake_off"
    /\ UNCHANGED <<command, args, adbOnPath, scrcpyOnPath, checked, listing, devices,
                   device, exitStatus, stderr>>

\* start_stream, lines 84-106: build the command, run it, keep its result
RunScrcpy ==
    /\ pc = "stream"
    /\ \E rc \in 0..MaxRc :
          /\ calls' = Append(calls, Call(BuildCmd(device, PROFILES[args.profile], args), rc))
          /\ result' = rc
    /\ pc' = "stay_awake_off"
    /\ UNCHANGED <<command, args, adbOnPath, scrcpyOnPath, checked, listing, devices,
                   device, exitStatus, stderr>>

\* start_stream where a failed restoration is raised like a failed enable
RestoreStayAwake_Raises ==
    /\ pc = "stay_awake_off"
    /\ \E rc \in SettingRcs(args.stay_awake) :
          /\ calls' = IF args.stay_awake
                      THEN Append(calls, Call(StayAwakeCmd(device, FALSE), rc))
                      ELSE calls
          /\ stderr' = IF rc # 0 THEN Append(stderr, "Error: No se pudo configurar stay_awake")
                       ELSE stderr
          /\ exitStatus' = IF rc # 0 THEN 1 ELSE result
    /\ pc' = "done"
    /\ UNCHANGED <<command, args, adbOnPath, scrcpyOnPath, checked, listing, devices,
                   device, result>>

\* start_stream, lines 108-117: restore, warn when that fails, return the
\* returncode of the mirroring tool
RestoreStayAwake ==
    /\ pc = "stay_awake_off"
    /\ \E rc \in SettingRcs(args.stay_awake) :
          /\ calls' = IF args.stay_awake
                      THEN Append(calls, Call(StayAwakeCmd(device, FALSE), rc))
                      ELSE calls
          /\ stderr' = IF rc # 0 THEN Append(stderr, "Advertencia: no se pudo restaurar stay_awake")
                       ELSE stderr
    /\ exitStatus' = result
    /\ pc' = "done"
    /\ UNCHANGED <<command, args, adbOnPath, scrcpyOnPath, checked, listing, devices,
                   device, result>>

Next ==
    \/ RequireAdb
    \/ RequireScrcpy
    \/ PrintProfiles
    \/ PrintDevices
    \/ StartResolve
    \/ EnableStayAwake
    \/ RunScrcpy
    \/ RestoreStayAwake

Spec == Init /\ [][Next]_vars

(* ------------------- list_devices on any captured text ----------------- *)
InitParse ==
    /\ command = "devices"
    /\ args = NoArgs
    /\ adbOnPath = TRUE
    /\ scrcpyOnPath = TRUE
    /\ pc = "parse"
    /\ checked = <<"adb">>
    /\ calls = <<Call(AdbDevicesCmd, 0)>>
    /\ listing \in AnyListings
    /\ devices = <<>>
    /\ device = <<>>
    /\ result = 0
    /\ exitStatus = 0
    /\ stderr = <<>>

\* list_devices, lines 52-57, on the captured stdout of a run that exited 0
ParseListing ==
    /\ pc = "parse"
    /\ devices' = list_devices(Render(listing))
    /\ pc' = "parsed"
    /\ UNCHANGED <<command, args, adbOnPath, scrcpyOnPath, checked, calls, listing,
                   device, result, exitStatus, stderr>>

NextParse == ParseListing

SpecParse == InitParse /\ [][NextParse]_vars

(* ------------------------------ properties ----------------------------- *)
IsScrcpyCall(c) == c.argv[1] = SCRCPY
IsSettingsCall(c) == c.argv[1] = ADB /\ Len(c.argv) = 9 /\ c.argv[5] = W_settings
IsEnableCall(c) == IsSettingsCall(c) /\ c.argv[9] = <<"3">>
IsDisableCall(c) == IsSettingsCall(c) /\ c.argv[9] = <<"0">>
Launched == \E i \in DOMAIN calls : IsScrcpyCall(calls[i])
AnySettingsCall == \E i \in DOMAIN calls : IsSettingsCall(calls[i])

\* the device listing ran and exited 0 / exited nonzero
Listed == \E i \in DOMAIN calls : calls[i].argv = AdbDevicesCmd /\ calls[i].rc = 0
ListingFailed == \E i \in DOMAIN calls : calls[i].argv = AdbDevicesCmd /\ calls[i].rc # 0
EnableFailed == \E i \in DOMAIN calls : IsEnableCall(calls[i]) /\ calls[i].rc # 0

\* the serials of the lines whose second field is the token device, in order,
\* read off the structure of the listing and not off its text
RECURSIVE ReadySerials(_)
ReadySerials(lines) ==
    IF lines = <<>> THEN <<>>
    ELSE (IF Len(Head(lines)) >= 2 /\ Head(lines)[2] = W_device
          THEN <<Head(lines)[1]>> ELSE <<>>) \o ReadySerials(Tail(lines))

\* the ready devices of the listing adb gave: the lines after the first
ReadyAttached == ReadySerials(Rest(listing.lines))

\* C1: in a start run with --stay-awake, the mirroring call is directly
\* preceded by a completed enable call and, once the run is over, directly
\* followed by a disable call, whatever the mirroring tool returned; the
\* exit status is the mirroring tool's code also when the disable call failed.
C1_StayAwakeBrackets ==
    (command = "start" /\ args.stay_awake) =>
        \A i \in DOMAIN calls : IsScrcpyCall(calls[i]) =>
            /\ i > 1
            /\ IsEnableCall(calls[i - 1])
            /\ calls[i - 1].rc = 0
            /\ \A j \in 1..i : ~IsDisableCall(calls[j])
            /\ pc = "done" =>
                  /\ Len(calls) = i + 1
                  /\ IsDisableCall(calls[i + 1])
                  /\ exitStatus = calls[i].rc

C1_Witness ==
    /\ command = "start" /\ args.stay_awake /\ pc = "done"
    /\ \E i \in DOMAIN calls :
          /\ IsScrcpyCall(calls[i]) /\ calls[i].rc # 0
          /\ i < Len(calls) /\ IsDisableCall(calls[i + 1]) /\ calls[i + 1].rc # 0

C3_NoReadyDevice ==
    (command = "start" /\ Listed /\ ReadyAttached = <<>>) =>
        /\ pc = "done"
        /\ exitStatus = 2
        /\ ~Launched
        /\ ~AnySettingsCall

C3_Witness ==
    /\ command = "start" /\ Listed /\ ReadyAttached = <<>> /\ pc = "done"
    /\ Len(listing.lines) > 1
    /\ args.serial.given /\ args.stay_awake

\* C4: when --serial X is given and X is not among the ready serials of a
\* non-empty listing, a start run is over with exit status 2 and has called
\* neither the mirroring tool nor settings, for every X.
C4_RequestedAbsent ==
    (/\ command = "start" /\ Listed /\ ReadyAttached # <<>>
     /\ args.serial.given /\ args.serial.val \notin Range(ReadyAttached)) =>
        /\ pc = "done"
        /\ exitStatus = 2
        /\ ~Launched
        /\ ~AnySettingsCall

\* C5: a failed enable call is the last call of the run: the run is over
\* with exit status 1, without mirroring call and without disable call.
C5_EnableFailureAborts ==
    \A i \in DOMAIN calls : (IsEnableCall(calls[i]) /\ calls[i].rc # 0) =>
        /\ pc = "done"
        /\ exitStatus = 1
        /\ i = Len(calls)
        /\ ~Launched
        /\ \A j \in DOMAIN calls : ~IsDisableCall(calls[j])

C5_Witness ==
    /\ command = "start" /\ args.stay_awake /\ pc = "done"
    /\ EnableFailed

\* C6 as stated: a finished devices run has exit status 0 in every outcome.
C6_AlwaysZero == (command = "devices" /\ pc = "done") => exitStatus = 0

\* C6 amended: a finished devices run has exit status 0 when the bridge tool
\* is on the path and the listing exited 0, with or without ready devices,
\* and exit status 1 when the tool is missing or the listing exited nonzero.
C6_ZeroUnlessError ==
    (command = "devices" /\ pc = "done") =>
        exitStatus = (IF adbOnPath /\ Listed THEN 0 ELSE 1)

C6_Witness ==
    /\ command = "devices" /\ pc = "done"
    /\ Listed /\ ReadyAttached = <<>> /\ exitStatus = 0

\* C7: no external command precedes the prerequisite check: a start run with
\* a tool missing never calls anything and ends with exit status 1; a
\* profiles run checks nothing, calls nothing and ends with 0; any call made
\* comes after the checks of its operation.
C7_PrerequisitesFirst ==
    /\ (command = "start" /\ (~adbOnPath \/ ~scrcpyOnPath)) =>
          /\ calls = <<>>
          /\ pc \in {"require_adb", "require_scrcpy", "done"}
          /\ pc = "done" => exitStatus = 1
    /\ command = "profiles" =>
          /\ checked = <<>>
          /\ calls = <<>>
          /\ pc = "done" => exitStatus = 0
    /\ calls # <<>> =>
          checked = (IF command = "start" THEN <<"adb", "scrcpy">> ELSE <<"adb">>)

C7_Witness ==
    /\ command = "start" /\ adbOnPath /\ ~scrcpyOnPath
    /\ pc = "done" /\ exitStatus = 1 /\ checked = <<"adb", "scrcpy">>

\* the values of the three presets, written out
PresetArgs(name) ==
    CASE name = "balanced" -> <<<<"8", "M">>, <<"6", "0">>, <<"h", "2", "6", "4">>>>
      [] name = "low-latency" -> <<<<"6", "M">>, <<"4", "5">>, <<"h", "2", "6", "4">>>>
      [] name = "ultra-low-latency" -> <<<<"4", "M">>, <<"3", "0">>, <<"h", "2", "6", "4">>>>

\* the decimal text of the --max-size values of the modelled runs
Decimal(n) ==
    CASE n = 0 -> <<"0">>
      [] n = 1024 -> <<"1", "0", "2", "4">>
      [] n = 0 - 1 -> <<"-", "1">>

\* the mirroring command with the --max-size pair present iff withSize
ExpectedCmd(withSize) ==
    <<SCRCPY, OPT_serial, device, OPT_video_bit_rate, PresetArgs(args.profile)[1],
      OPT_max_fps, PresetArgs(args.profile)[2], OPT_video_codec, PresetArgs(args.profile)[3]>>
    \o (IF withSize THEN <<OPT_max_size, Decimal(args.max_size.val)>> ELSE <<>>)
    \o (IF args.turn_screen_off THEN <<OPT_turn_screen_off>> ELSE <<>>)
    \o (IF args.no_audio THEN <<OPT_no_audio>> ELSE <<>>)

\* C8 as stated: the mirroring command is the four base pairs of the resolved
\* device and profile, then the pair --max-size N iff --max-size was given,
\* then --turn-screen-off and --no-audio iff their flags were given.
C8_OptionalsIffGiven ==
    \A i \in DOMAIN calls : IsScrcpyCall(calls[i]) =>
        calls[i].argv = ExpectedCmd(args.max_size.given)

\* C8 amended: the same, with the pair --max-size N present iff --max-size
\* was given with a nonzero N.
C8_OptionalsIffNonzero ==
    \A i \in DOMAIN calls : IsScrcpyCall(calls[i]) =>
        calls[i].argv = ExpectedCmd(args.max_size.given /\ args.max_size.val # 0)

C8_Witness ==
    /\ Launched
    /\ args.max_size = Some(1024) /\ args.turn_screen_off /\ ~args.no_audio
    /\ args.profile = "low-latency"

\* C9: list_devices returns the first fields of the lines after the first
\* that have at least two fields and the second field device, in line order,
\* duplicates kept; nothing for other states, blank lines and the first line.
C9_ListDevices ==
    pc = "parsed" => devices = ReadySerials(Rest(listing.lines))

C9_Witness ==
    /\ pc = "parsed"
    /\ devices = <<SerialB>>
    /\ Len(listing.lines) = 3
    /\ \E k \in 2..3 : Len(listing.lines[k]) >= 2 /\ listing.lines[k][2] = W_unauthorized
    /\ listing.eol = <<"\r", "\n">> /\ listing.lead

\* C10: every settings call and the mirroring call of a start run name one
\* serial, which is among the ready serials listed and is the requested
\* serial when --serial was given, the first ready serial otherwise.
C10_OneResolvedDevice ==
    command = "start" =>
        \A i \in DOMAIN calls : (IsScrcpyCall(calls[i]) \/ IsSettingsCall(calls[i])) =>
            /\ calls[i].argv[3] = device
            /\ device \in Range(ReadyAttached)
            /\ device = (IF args.serial.given THEN args.serial.val ELSE ReadyAttached[1])

====
